---- MODULE Spec2Model ----
(***************************************************************************)
(* A model of app/services/video.py: combine_videos (clip normalization,   *)
(* ordering, batch merge, audio/video duration reconciliation, and the     *)
(* letterbox computation), wrap_text (subtitle wrapping), generate_video   *)
(* (background music, final encode, subtitle placement) and close_clip.    *)
(* Durations are whole seconds.  The codec library (moviepy) is the        *)
(* environment: each load, each encode and each close either succeeds or   *)
(* raises.                                                                 *)
(***************************************************************************)
EXTENDS Integers, Sequences, FiniteSets, TLC

VARIABLES
    \* ---- combine_videos ----
    pc,                    \* position inside combine_videos
    video_paths,           \* len(video_paths): the sources are 0 .. video_paths-1
    video_concat_mode,     \* "sequential" or "random"
    max_clip_duration,     \* max_clip_duration
    audio_duration,        \* audio_clip.duration of the narration
    i,                     \* index of the source being processed (enumerate)
    clip,                  \* the source handle: [open, duration] (duration while it is split)
    start_time,            \* start_time of the next sub-clip
    processed_clip_paths,  \* list of sub-clips [i, start, dur] (path clip_{i}_{start}.mp4)
    video_duration,        \* accumulated duration of the written sub-clips
    shuffled_paths,        \* scheduler: placed elements
    available_paths,       \* scheduler: remaining elements
    temp_clips,            \* files present in temp_dir: [i, start, partial]
    temp_dir,              \* TRUE while temp_dir exists
    files,                 \* temp_merged, temp_merged_next, temp_final, out
    merge_i,               \* loop variable of the batch merge loop
    merge_handles,         \* the merge iteration that just ended: [opened, released]
    result,                \* "running", "returned" (normal return), "raised"
    \* ---- history of the run (not read by the code) ----
    sources,               \* per source: "loaded", "ok", "load_failed" or "write_failed"
    picks,                 \* per placed element: available_paths when it was picked
    batches,               \* per attempted batch: [first, ok]
    final_encode,          \* "none", "ok", "failed": the write of temp_final
    \* ---- wrap_text ----
    wt,                    \* [pc, text, w1, w2, r1, r2]
    \* ---- generate_video ----
    gv,                    \* [pc, bgm_type, bgm_file, songs, ...]
    \* ---- the letterbox computation of combine_videos ----
    rz,                    \* [pc, clip_w, clip_h, video_width, video_height, ...]
    \* ---- the subtitle placement of create_text_clip ----
    tp,                    \* [pc, subtitle_position, custom_position, h, video_height, y]
    \* ---- close_clip ----
    cc                     \* [pc, target, handles, stack, ...]

cvVars == <<pc, video_paths, video_concat_mode, max_clip_duration, audio_duration,
            i, clip, start_time, processed_clip_paths, video_duration,
            shuffled_paths, available_paths, temp_clips, temp_dir, files,
            merge_i, merge_handles, result, sources, picks, batches, final_encode>>

vars == <<cvVars, wt, gv, rz, tp, cc>>

-----------------------------------------------------------------------------
(* Bounds of the model *)

\* len(video_paths) <= MaxSources
MaxSources == 4

\* the duration of a source is in 1..MaxDur
MaxDur == 6

\* the duration of the narration is in 1..MaxAudio
MaxAudio == 3

\* random mode: the sources that load yield at most MaxClips sub-clips in all
MaxClips == 3

\* random mode: len(video_paths) <= MaxRandomSources
MaxRandomSources == 2

\* the values of max_clip_duration that are explored (the default is 5)
ClipDurations == {2, 5}

-----------------------------------------------------------------------------
(* Helpers *)

Min(a, b) == IF a < b THEN a ELSE b

RECURSIVE SumDur(_)
SumDur(s) == IF s = <<>> THEN 0 ELSE Head(s).dur + SumDur(Tail(s))

\* the path of a sub-clip file, clip_{i}_{start_time}.mp4: what == compares
Key(c) == <<c.i, c.start>>

\* list.remove(x): the list without the first element whose path is that of x
RemoveLast(s, x) == SubSeq(s, 1, Len(s) - 1)

ListRemove(s, x) ==
    LET k == CHOOSE k \in 1..Len(s) :
                 /\ Key(s[k]) = Key(x)
                 /\ \A j \in 1..(k-1) : Key(s[j]) # Key(x)
    IN  SubSeq(s, 1, k-1) \o SubSeq(s, k+1, Len(s))

FileNames == {"temp_merged", "temp_merged_next", "temp_final", "out"}

NoFile == [exists |-> FALSE, clips |-> <<>>, dur |-> 0, audio |-> FALSE, partial |-> FALSE]

VideoFile(clips, dur, audio, partial) ==
    [exists |-> TRUE, clips |-> clips, dur |-> dur, audio |-> audio, partial |-> partial]

NoClip == [open |-> FALSE, duration |-> 0]

\* no merge iteration has run, or the merge loop is over
NoHandles == [opened |-> {}, released |-> {}]

-----------------------------------------------------------------------------
(* combine_videos: normalization of the sources into sub-clips *)

\* end_time = min(start_time + max_clip_duration, clip_duration)
EndTimeNoMin(start, m, D) == start + m

EndTime(start, m, D) == Min(start + m, D)

\* if video_concat_mode.value == VideoConcatMode.sequential.value: break
BreakNever(mode) == FALSE

BreakAfterFirst(mode) == mode = "sequential"

\* the number of sub-clips the while loop writes for a source of duration D
RECURSIVE LoopCount(_, _, _)
LoopCount(start, m, D) ==
    IF start < D THEN 1 + LoopCount(EndTime(start, m, D), m, D) ELSE 0

\* the bound on the sub-clips of a run: MaxClips in random mode
WithinBounds(mode, m, D, written) ==
    mode = "random" => written + LoopCount(0, m, D) <= MaxClips

InitCombine ==
    /\ pc = "start"
    /\ video_paths \in 0..MaxSources
    /\ video_concat_mode \in {"sequential", "random"}
    /\ video_concat_mode = "random" => video_paths <= MaxRandomSources
    /\ max_clip_duration \in ClipDurations
    /\ audio_duration \in 1..MaxAudio
    /\ i = 0
    /\ clip = NoClip
    /\ start_time = 0
    /\ processed_clip_paths = <<>>
    /\ video_duration = 0
    /\ shuffled_paths = <<>>
    /\ available_paths = <<>>
    /\ temp_clips = {}
    /\ temp_dir = FALSE
    /\ files = [f \in FileNames |-> NoFile]
    /\ merge_i = 0
    /\ merge_handles = NoHandles
    /\ result = "running"
    /\ sources = <<>>
    /\ picks = <<>>
    /\ batches = <<>>
    /\ final_encode = "none"

IdleCombine ==
    /\ pc = "idle"
    /\ video_paths = 0
    /\ video_concat_mode = "sequential"
    /\ max_clip_duration = 5
    /\ audio_duration = 1
    /\ i = 0
    /\ clip = NoClip
    /\ start_time = 0
    /\ processed_clip_paths = <<>>
    /\ video_duration = 0
    /\ shuffled_paths = <<>>
    /\ available_paths = <<>>
    /\ temp_clips = {}
    /\ temp_dir = FALSE
    /\ files = [f \in FileNames |-> NoFile]
    /\ merge_i = 0
    /\ merge_handles = NoHandles
    /\ result = "running"
    /\ sources = <<>>
    /\ picks = <<>>
    /\ batches = <<>>
    /\ final_encode = "none"

\* AudioFileClip(audio_file) raises, or len(video_paths) = 0 divides by zero
EntryRaises ==
    /\ UNCHANGED <<wt, gv, rz, tp, cc>>
    /\ pc = "start"
    /\ pc' = "done"
    /\ result' = "raised"
    /\ UNCHANGED <<video_paths, video_concat_mode, max_clip_duration, audio_duration,
                   i, clip, start_time, processed_clip_paths, video_duration,
                   shuffled_paths, available_paths, temp_clips, temp_dir, files,
                   merge_i, merge_handles, sources, picks, batches, final_encode>>

\* lines 127-144: the narration is loaded, temp_dir is created
Entry ==
    /\ UNCHANGED <<wt, gv, rz, tp, cc>>
    /\ pc = "start"
    /\ video_paths > 0
    /\ pc' = "normalize"
    /\ temp_dir' = TRUE
    /\ UNCHANGED <<video_paths, video_concat_mode, max_clip_duration, audio_duration,
                   i, clip, start_time, processed_clip_paths, video_duration,
                   shuffled_paths, available_paths, temp_clips, files,
                   merge_i, merge_handles, result, sources, picks, batches, final_encode>>

\* VideoFileClip(video_path) succeeds and reports duration D
LoadSource ==
    /\ UNCHANGED <<wt, gv, rz, tp, cc>>
    /\ pc = "normalize"
    /\ i < video_paths
    /\ \E D \in 1..MaxDur :
          /\ WithinBounds(video_concat_mode, max_clip_duration, D,
                          Len(processed_clip_paths))
          /\ clip' = [open |-> TRUE, duration |-> D]
          /\ sources' = Append(sources, "loaded")
    /\ start_time' = 0
    /\ pc' = "split"
    /\ UNCHANGED <<video_paths, video_concat_mode, max_clip_duration, audio_duration,
                   i, processed_clip_paths, video_duration,
                   shuffled_paths, available_paths, temp_clips, temp_dir, files,
                   merge_i, merge_handles, result, picks, batches, final_encode>>

\* VideoFileClip(video_path) raises: except ... continue
LoadSourceFails ==
    /\ UNCHANGED <<wt, gv, rz, tp, cc>>
    /\ pc = "normalize"
    /\ i < video_paths
    /\ sources' = Append(sources, "load_failed")
    /\ i' = i + 1
    /\ UNCHANGED <<pc, video_paths, video_concat_mode, max_clip_duration, audio_duration,
                   clip, start_time, processed_clip_paths, video_duration,
                   shuffled_paths, available_paths, temp_clips, temp_dir, files,
                   merge_i, merge_handles, result, picks, batches, final_encode>>

\* one iteration of the while loop (lines 164-206) in which write_videofile succeeds;
\* when the loop ends (or breaks) the source is closed and the for loop moves on
WriteSubclip ==
    /\ UNCHANGED <<wt, gv, rz, tp, cc>>
    /\ pc = "split"
    /\ start_time < clip.duration
    /\ LET end_time == EndTime(start_time, max_clip_duration, clip.duration)
           sub == [i |-> i, start |-> start_time, dur |-> end_time - start_time]
           ends == BreakAfterFirst(video_concat_mode) \/ ~(end_time < clip.duration)
       IN  /\ processed_clip_paths' = Append(processed_clip_paths, sub)
           /\ video_duration' = video_duration + sub.dur
           /\ temp_clips' = temp_clips \cup {[i |-> i, start |-> start_time, partial |-> FALSE]}
           /\ start_time' = end_time
           /\ IF ends
                THEN /\ clip' = NoClip
                     /\ i' = i + 1
                     /\ pc' = "normalize"
                     /\ sources' = [sources EXCEPT ![i + 1] = "ok"]
                ELSE UNCHANGED <<clip, i, pc, sources>>
    /\ UNCHANGED <<video_paths, video_concat_mode, max_clip_duration, audio_duration,
                   shuffled_paths, available_paths, temp_dir, files,
                   merge_i, merge_handles, result, picks, batches, final_encode>>

\* an iteration of the while loop raises (subclip, resize, composite or
\* write_videofile): the source is abandoned, the sub-clips already appended stay
WriteSubclipFails ==
    /\ UNCHANGED <<wt, gv, rz, tp, cc>>
    /\ pc = "split"
    /\ start_time < clip.duration
    /\ \E left \in BOOLEAN :
          temp_clips' = IF left
                          THEN temp_clips \cup {[i |-> i, start |-> start_time, partial |-> TRUE]}
                          ELSE temp_clips
    /\ sources' = [sources EXCEPT ![i + 1] = "write_failed"]
    /\ clip' = [open |-> TRUE, duration |-> 0]
    /\ i' = i + 1
    /\ pc' = "normalize"
    /\ UNCHANGED <<video_paths, video_concat_mode, max_clip_duration, audio_duration,
                   start_time, processed_clip_paths, video_duration,
                   shuffled_paths, available_paths, temp_dir, files,
                   merge_i, merge_handles, result, picks, batches, final_encode>>

-----------------------------------------------------------------------------
(* combine_videos: ordering of the sub-clips (lines 218-247) *)

\* len(available_paths) == 1 and available_paths[0] == shuffled_paths[0]
SwapGuard(sh, av) == Len(av) = 1 /\ Key(av[1]) = Key(sh[1])

\* shuffled_paths[-1], available_paths[0] = available_paths[0], shuffled_paths[-1]
SwapShuffled(sh, av) ==
    IF SwapGuard(sh, av) THEN [sh EXCEPT ![Len(sh)] = av[1]] ELSE sh

SwapAvailable(sh, av) ==
    IF SwapGuard(sh, av) THEN <<sh[Len(sh)]>> ELSE av

\* candidates = [p for p in available_paths if p != shuffled_paths[-1]],
\* or available_paths when that is empty
Candidates(av, last) ==
    LET c == SelectSeq(av, LAMBDA p : Key(p) # Key(last))
    IN  IF c = <<>> THEN av ELSE c

\* sequential mode, or random mode with at most one sub-clip (random.shuffle
\* of a list of length <= 1): the list is passed on as it is
ScheduleNothing ==
    /\ UNCHANGED <<wt, gv, rz, tp, cc>>
    /\ pc = "normalize"
    /\ i = video_paths
    /\ \/ video_concat_mode # "random"
       \/ Len(processed_clip_paths) <= 1
    /\ pc' = "merge"
    /\ UNCHANGED <<video_paths, video_concat_mode, max_clip_duration, audio_duration,
                   i, clip, start_time, processed_clip_paths, video_duration,
                   shuffled_paths, available_paths, temp_clips, temp_dir, files,
                   merge_i, merge_handles, result, sources, picks, batches, final_encode>>

\* first_clip = random.choice(available_paths)
PickFirst ==
    /\ UNCHANGED <<wt, gv, rz, tp, cc>>
    /\ pc = "normalize"
    /\ i = video_paths
    /\ video_concat_mode = "random"
    /\ Len(processed_clip_paths) > 1
    /\ \E k \in 1..Len(processed_clip_paths) :
          LET first_clip == processed_clip_paths[k]
          IN  /\ shuffled_paths' = <<first_clip>>
              /\ available_paths' = ListRemove(processed_clip_paths, first_clip)
    /\ picks' = <<processed_clip_paths>>
    /\ pc' = "pick"
    /\ UNCHANGED <<video_paths, video_concat_mode, max_clip_duration, audio_duration,
                   i, clip, start_time, processed_clip_paths, video_duration,
                   temp_clips, temp_dir, files,
                   merge_i, merge_handles, result, sources, batches, final_encode>>

\* one iteration of "while available_paths"; after the last one
\* processed_clip_paths = shuffled_paths
PickNext ==
    /\ UNCHANGED <<wt, gv, rz, tp, cc>>
    /\ pc = "pick"
    /\ available_paths # <<>>
    /\ LET sh == SwapShuffled(shuffled_paths, available_paths)
           av == SwapAvailable(shuffled_paths, available_paths)
           candidates == Candidates(av, sh[Len(sh)])
       IN  \E k \in 1..Len(candidates) :
              LET next_clip == candidates[k]
                  av2 == ListRemove(av, next_clip)
              IN  /\ shuffled_paths' = Append(sh, next_clip)
                  /\ available_paths' = av2
                  /\ picks' = Append(picks, av)
                  /\ IF av2 = <<>>
                       THEN /\ processed_clip_paths' = Append(sh, next_clip)
                            /\ pc' = "merge"
                       ELSE UNCHANGED <<processed_clip_paths, pc>>
    /\ UNCHANGED <<video_paths, video_concat_mode, max_clip_duration, audio_duration,
                   i, clip, start_time, video_duration,
                   temp_clips, temp_dir, files,
                   merge_i, merge_handles, result, sources, batches, final_encode>>

-----------------------------------------------------------------------------
(* combine_videos: batch merge (lines 251-350) *)

batch_size == 2

ClipFile(c) == VideoFile(<<c>>, c.dur, FALSE, FALSE)

\* the sub-clips of the batch that starts at index first (0-based):
\* for j in range(i, min(i + batch_size, len(processed_clip_paths)))
BatchClipsShort(paths, first) ==
    [k \in 1..(Min(first + batch_size, Len(paths)) - first - 1) |-> paths[first + k]]

BatchClips(paths, first) ==
    [k \in 1..(Min(first + batch_size, Len(paths)) - first) |-> paths[first + k]]

\* concatenate_videoclips([base_clip] + batch_clips)
Concatenate(base, batch) ==
    VideoFile(base.clips \o batch, base.dur + SumDur(batch), FALSE, FALSE)

\* os.remove(temp_merged_video); os.rename(temp_merged_next, temp_merged_video)
ReplaceBaseByCopy(fs, merged) ==
    [fs EXCEPT !["temp_merged"] = merged, !["temp_merged_next"] = merged]

ReplaceBase(fs, merged) ==
    [fs EXCEPT !["temp_merged"] = merged, !["temp_merged_next"] = NoFile]

\* the except branch of a batch: what a failed merge step leaves on disk
FailedBatch(fs, partial) ==
    IF partial
      THEN [fs EXCEPT !["temp_merged_next"] =
                         VideoFile(fs["temp_merged"].clips, 0, FALSE, TRUE)]
      ELSE fs

\* the handles one iteration of the merge loop opens: base_clip (line 280),
\* the clips of batch_clips (line 292) and merged_clip (line 311)
MergeHandles == {"base_clip", "batch_clips", "merged_clip"}

\* close_clip(base_clip), close_clip of every batch clip, close_clip(merged_clip):
\* lines 325-328, reached when write_videofile has returned
ClosedAfterWrite == {"base_clip", "batch_clips", "merged_clip"}

\* the calls of a merge iteration that can raise, in program order
FailStages == {"load_base", "load_clips", "write"}

\* the handles that are open when the call of that stage raises: none when
\* VideoFileClip(temp_merged_video) raises; base_clip (and the batch clips
\* loaded so far) when a batch clip, a transition or the concatenation raises;
\* all of them when write_videofile raises
OpenedBefore(stage) ==
    IF stage = "load_base" THEN {}
    ELSE IF stage = "load_clips" THEN {"base_clip"}
    ELSE MergeHandles

\* the except branch (lines 340-342) logs and continues: it closes nothing
ClosedInExcept == {}

\* if not processed_clip_paths: return combined_video_path
NoClips ==
    /\ UNCHANGED <<wt, gv, rz, tp, cc>>
    /\ pc = "merge"
    /\ processed_clip_paths = <<>>
    /\ pc' = "done"
    /\ result' = "returned"
    /\ UNCHANGED <<video_paths, video_concat_mode, max_clip_duration, audio_duration,
                   i, clip, start_time, processed_clip_paths, video_duration,
                   shuffled_paths, available_paths, temp_clips, temp_dir, files,
                   merge_i, merge_handles, sources, picks, batches, final_encode>>

\* len(processed_clip_paths) == 1: copy, clean up, return (lines 258-264)
SingleClip ==
    /\ UNCHANGED <<wt, gv, rz, tp, cc>>
    /\ pc = "merge"
    /\ Len(processed_clip_paths) = 1
    /\ files' = [files EXCEPT !["out"] = ClipFile(processed_clip_paths[1])]
    /\ temp_clips' = {}
    /\ temp_dir' = FALSE
    /\ pc' = "done"
    /\ result' = "returned"
    /\ UNCHANGED <<video_paths, video_concat_mode, max_clip_duration, audio_duration,
                   i, clip, start_time, processed_clip_paths, video_duration,
                   shuffled_paths, available_paths,
                   merge_i, merge_handles, sources, picks, batches, final_encode>>

\* shutil.copy(processed_clip_paths[0], temp_merged_video)
SeedMerge ==
    /\ UNCHANGED <<wt, gv, rz, tp, cc>>
    /\ pc = "merge"
    /\ Len(processed_clip_paths) > 1
    /\ files' = [files EXCEPT !["temp_merged"] = ClipFile(processed_clip_paths[1])]
    /\ merge_i' = 1
    /\ pc' = "batch"
    /\ UNCHANGED <<video_paths, video_concat_mode, max_clip_duration, audio_duration,
                   i, clip, start_time, processed_clip_paths, video_duration,
                   shuffled_paths, available_paths, temp_clips, temp_dir,
                   merge_handles, result, sources, picks, batches, final_encode>>

\* one iteration of the merge loop in which nothing raises
MergeBatch ==
    /\ UNCHANGED <<wt, gv, rz, tp, cc>>
    /\ pc = "batch"
    /\ merge_i < Len(processed_clip_paths)
    /\ files["temp_merged"].exists
    /\ files' = ReplaceBase(files, Concatenate(files["temp_merged"],
                                               BatchClips(processed_clip_paths, merge_i)))
    /\ batches' = Append(batches, [first |-> merge_i, ok |-> TRUE])
    /\ merge_handles' = [opened |-> MergeHandles, released |-> ClosedAfterWrite]
    /\ merge_i' = merge_i + batch_size
    /\ UNCHANGED <<pc, video_paths, video_concat_mode, max_clip_duration, audio_duration,
                   i, clip, start_time, processed_clip_paths, video_duration,
                   shuffled_paths, available_paths, temp_clips, temp_dir,
                   result, sources, picks, final_encode>>

\* one iteration of the merge loop in which a load, a transition, the
\* concatenation or write_videofile raises: except ... continue
MergeBatchFails ==
    /\ UNCHANGED <<wt, gv, rz, tp, cc>>
    /\ pc = "batch"
    /\ merge_i < Len(processed_clip_paths)
    /\ \E stage \in FailStages, partial \in BOOLEAN :
          /\ partial => stage = "write"
          /\ files' = FailedBatch(files, partial)
          /\ merge_handles' = [opened |-> OpenedBefore(stage),
                                released |-> ClosedInExcept]
    /\ batches' = Append(batches, [first |-> merge_i, ok |-> FALSE])
    /\ merge_i' = merge_i + batch_size
    /\ UNCHANGED <<pc, video_paths, video_concat_mode, max_clip_duration, audio_duration,
                   i, clip, start_time, processed_clip_paths, video_duration,
                   shuffled_paths, available_paths, temp_clips, temp_dir,
                   result, sources, picks, final_encode>>

\* lines 344-350: move temp_merged to the output path, delete the sub-clip files
FinishMerge ==
    /\ UNCHANGED <<wt, gv, rz, tp, cc>>
    /\ pc = "batch"
    /\ ~(merge_i < Len(processed_clip_paths))
    /\ files' = IF files["temp_merged"].exists
                  THEN [files EXCEPT !["out"] = files["temp_merged"],
                                     !["temp_merged"] = NoFile]
                  ELSE files
    /\ temp_clips' = {}
    /\ temp_dir' = FALSE
    /\ merge_handles' = NoHandles
    /\ pc' = "sync"
    /\ UNCHANGED <<video_paths, video_concat_mode, max_clip_duration, audio_duration,
                   i, clip, start_time, processed_clip_paths, video_duration,
                   shuffled_paths, available_paths,
                   merge_i, result, sources, picks, batches, final_encode>>

-----------------------------------------------------------------------------
(* combine_videos: adding the narration (lines 352-401) *)

\* repeat_times = int(audio_duration / video_duration) + 1
RepeatTimes(N, V) == (N \div V) + 1

\* the duration of video_clip after the loop and the cut (lines 358-365);
\* fileDur is the duration of the file at combined_video_path, V is video_duration
SyncedDuration(fileDur, V, N) ==
    LET looped == IF V < N THEN fileDur * RepeatTimes(N, V) ELSE fileDur
    IN  IF looped > N THEN N ELSE looped

\* os.remove(combined_video_path); os.rename(temp_final, combined_video_path)
ReplaceOutput(fs, final) ==
    [fs EXCEPT !["out"] = final, !["temp_final"] = NoFile]

\* the try block succeeds: temp_final is written and renamed to the output path
AddAudio ==
    /\ UNCHANGED <<wt, gv, rz, tp, cc>>
    /\ pc = "sync"
    /\ files["out"].exists
    /\ files' = ReplaceOutput(files,
                    VideoFile(files["out"].clips,
                              SyncedDuration(files["out"].dur, video_duration, audio_duration),
                              TRUE, FALSE))
    /\ final_encode' = "ok"
    /\ pc' = "done"
    /\ result' = "returned"
    /\ UNCHANGED <<video_paths, video_concat_mode, max_clip_duration, audio_duration,
                   i, clip, start_time, processed_clip_paths, video_duration,
                   shuffled_paths, available_paths, temp_clips, temp_dir,
                   merge_i, merge_handles, sources, picks, batches>>

\* final_clip.write_videofile(temp_final) raises: the except branch logs,
\* and the function returns combined_video_path
AddAudioWriteFails ==
    /\ UNCHANGED <<wt, gv, rz, tp, cc>>
    /\ pc = "sync"
    /\ files["out"].exists
    /\ \E partial \in BOOLEAN :
          files' = IF partial
                     THEN [files EXCEPT !["temp_final"] =
                              VideoFile(files["out"].clips, 0, TRUE, TRUE)]
                     ELSE files
    /\ final_encode' = "failed"
    /\ pc' = "done"
    /\ result' = "returned"
    /\ UNCHANGED <<video_paths, video_concat_mode, max_clip_duration, audio_duration,
                   i, clip, start_time, processed_clip_paths, video_duration,
                   shuffled_paths, available_paths, temp_clips, temp_dir,
                   merge_i, merge_handles, sources, picks, batches>>

\* VideoFileClip(combined_video_path), the loop or the cut raises
AddAudioLoadFails ==
    /\ UNCHANGED <<wt, gv, rz, tp, cc>>
    /\ pc = "sync"
    /\ pc' = "done"
    /\ result' = "returned"
    /\ UNCHANGED <<video_paths, video_concat_mode, max_clip_duration, audio_duration,
                   i, clip, start_time, processed_clip_paths, video_duration,
                   shuffled_paths, available_paths, temp_clips, temp_dir, files,
                   merge_i, merge_handles, sources, picks, batches, final_encode>>

NextCombine ==
    \/ EntryRaises
    \/ Entry
    \/ LoadSource
    \/ LoadSourceFails
    \/ WriteSubclip
    \/ WriteSubclipFails
    \/ ScheduleNothing
    \/ PickFirst
    \/ PickNext
    \/ NoClips
    \/ SingleClip
    \/ SeedMerge
    \/ MergeBatch
    \/ MergeBatchFails
    \/ FinishMerge
    \/ AddAudio
    \/ AddAudioWriteFails
    \/ AddAudioLoadFails

IdleWrap == wt = [pc |-> "idle"]

IdleGenerate == gv = [pc |-> "idle"]

IdleResize == rz = [pc |-> "idle"]

IdlePlace == tp = [pc |-> "idle"]

IdleClose == cc = [pc |-> "idle"]

\* combine_videos
Init == InitCombine /\ IdleWrap /\ IdleGenerate /\ IdleResize /\ IdlePlace /\ IdleClose

Next == NextCombine

Spec == Init /\ [][Next]_vars

-----------------------------------------------------------------------------
(* wrap_text (lines 404-455).  A text is a sequence of characters; the font  *)
(* gives every character a width and the width of a text is the sum.        *)

MaxTextLen == 8

MaxWidth == 3

Chars == {"a", "W", " "}

CharWidth(c) == IF c = "W" THEN 2 ELSE 1

RECURSIVE LStrip(_)
LStrip(s) == IF s # <<>> /\ Head(s) = " " THEN LStrip(Tail(s)) ELSE s

RECURSIVE RStrip(_)
RStrip(s) ==
    IF s # <<>> /\ s[Len(s)] = " " THEN RStrip(SubSeq(s, 1, Len(s) - 1)) ELSE s

\* str.strip()
Strip(s) == RStrip(LStrip(s))

RECURSIVE SumWidth(_)
SumWidth(s) == IF s = <<>> THEN 0 ELSE CharWidth(Head(s)) + SumWidth(Tail(s))

\* get_text_size(inner_text)[0]: the width of the stripped text
TextWidth(s) == SumWidth(Strip(s))

\* text.split(" ")
RECURSIVE Split(_, _)
Split(s, word) ==
    IF s = <<>> THEN <<word>>
    ELSE IF Head(s) = " " THEN <<word>> \o Split(Tail(s), <<>>)
    ELSE Split(Tail(s), Append(word, Head(s)))

\* the word-level loop (lines 419-434) from word k on; processed = FALSE when
\* a word alone on its line exceeds max_width
RECURSIVE WordPass(_, _, _, _, _)
WordPass(words, k, txt, lines, max_width) ==
    IF k > Len(words)
      THEN [processed |-> TRUE, lines |-> Append(lines, txt)]
      ELSE LET word == words[k]
               t == txt \o word \o <<" ">>
           IN  IF TextWidth(t) <= max_width
                 THEN WordPass(words, k + 1, t, lines, max_width)
                 ELSE IF Strip(t) = Strip(word)
                        THEN [processed |-> FALSE, lines |-> Append(lines, t)]
                        ELSE WordPass(words, k + 1, word \o <<" ">>,
                                      Append(lines, txt), max_width)

\* the character-level loop (lines 441-452) from character k on
RECURSIVE CharPass(_, _, _, _, _)
CharPass(chars, k, txt, lines, max_width) ==
    IF k > Len(chars)
      THEN Append(lines, txt)
      ELSE LET t == Append(txt, chars[k])
           IN  IF TextWidth(t) <= max_width
                 THEN CharPass(chars, k + 1, t, lines, max_width)
                 ELSE CharPass(chars, k + 1, <<>>, Append(lines, t), max_width)

\* wrap_text(text, max_width): the lines of the returned text and count, the
\* factor the single-line height is multiplied by
WrapText(text, max_width) ==
    IF TextWidth(text) <= max_width
      THEN [pass |-> "fit", lines |-> <<text>>, count |-> 1]
      ELSE LET w == WordPass(Split(text, <<>>), 1, <<>>, <<>>, max_width)
           IN  IF w.processed
                 THEN [pass |-> "word",
                       lines |-> [k \in 1..Len(w.lines) |-> Strip(w.lines[k])],
                       count |-> Len(w.lines)]
                 ELSE LET c == CharPass(text, 1, <<>>, <<>>, max_width)
                      IN  [pass |-> "char", lines |-> c, count |-> Len(c)]

NoWrap == [pass |-> "none", lines |-> <<>>, count |-> 0]

Texts == UNION {[1..n -> Chars] : n \in 1..MaxTextLen}

InitWrap ==
    \E text \in Texts, w1 \in 1..MaxWidth, w2 \in 1..MaxWidth :
        /\ w1 < w2
        /\ wt = [pc |-> "first", text |-> text, w1 |-> w1, w2 |-> w2,
                 r1 |-> NoWrap, r2 |-> NoWrap]

\* wrap_text(text, w1)
WrapNarrow ==
    /\ UNCHANGED <<cvVars, gv, rz, tp, cc>>
    /\ wt.pc = "first"
    /\ wt' = [wt EXCEPT !.pc = "second", !.r1 = WrapText(wt.text, wt.w1)]

\* wrap_text(text, w2)
WrapWide ==
    /\ UNCHANGED <<cvVars, gv, rz, tp, cc>>
    /\ wt.pc = "second"
    /\ wt' = [wt EXCEPT !.pc = "done", !.r2 = WrapText(wt.text, wt.w2)]

NextWrap ==
    \/ WrapNarrow
    \/ WrapWide

-----------------------------------------------------------------------------
(* get_bgm_file (lines 101-114) and generate_video (lines 458-579) *)

MaxSongs == 2

\* get_bgm_file(bgm_type, bgm_file): "" (no music), "given" (bgm_file),
\* "song" (a file of song_dir) or "IndexError" (random.choice of an empty list);
\* bgm_file is "", "missing" (a path that does not exist) or "present"
get_bgm_file(bgm_type, bgm_file, songs) ==
    IF bgm_type = "" THEN ""
    ELSE IF bgm_file = "present" THEN "given"
    ELSE IF bgm_type = "random"
           THEN (IF songs = 0 THEN "IndexError" ELSE "song")
    ELSE ""

InitGenerate ==
    \E bgm_type \in {"", "random", "custom"},
       bgm_file \in {"", "missing", "present"},
       songs \in 0..MaxSongs,
       subtitle \in BOOLEAN :
        gv = [pc |-> "load", bgm_type |-> bgm_type, bgm_file |-> bgm_file,
              songs |-> songs, subtitle |-> subtitle, overlays |-> FALSE,
              bgm |-> "", audio |-> "none", output |-> "none",
              result |-> "running", raised_at |-> "none"]

GvRaise(at) == gv' = [gv EXCEPT !.pc = "done", !.result = "raised", !.raised_at = at]

\* lines 533-536: the video and the narration are loaded
LoadClips ==
    /\ UNCHANGED <<cvVars, wt, rz, tp, cc>>
    /\ gv.pc = "load"
    /\ gv' = [gv EXCEPT !.pc = "subtitles", !.audio = "narration"]

LoadClipsFails ==
    /\ UNCHANGED <<cvVars, wt, rz, tp, cc>>
    /\ gv.pc = "load"
    /\ GvRaise("load")

\* lines 545-553: the subtitle overlays, when subtitle_path exists
Subtitles ==
    /\ UNCHANGED <<cvVars, wt, rz, tp, cc>>
    /\ gv.pc = "subtitles"
    /\ gv' = [gv EXCEPT !.pc = "get_bgm", !.overlays = gv.subtitle]

SubtitlesFail ==
    /\ UNCHANGED <<cvVars, wt, rz, tp, cc>>
    /\ gv.pc = "subtitles"
    /\ gv.subtitle
    /\ GvRaise("subtitles")

\* line 555: bgm_file = get_bgm_file(...), outside any try
GetBgm ==
    /\ UNCHANGED <<cvVars, wt, rz, tp, cc>>
    /\ gv.pc = "get_bgm"
    /\ LET f == get_bgm_file(gv.bgm_type, gv.bgm_file, gv.songs)
       IN  IF f = "IndexError"
             THEN GvRaise("get_bgm_file")
             ELSE gv' = [gv EXCEPT !.pc = "add_bgm", !.bgm = f]

\* lines 556-565: the music is loaded and mixed with the narration
AddBgm ==
    /\ UNCHANGED <<cvVars, wt, rz, tp, cc>>
    /\ gv.pc = "add_bgm"
    /\ gv' = [gv EXCEPT !.pc = "write",
                        !.audio = IF gv.bgm = "" THEN gv.audio ELSE "narration+bgm"]

\* lines 566-567: loading or processing the music raises, which is logged
AddBgmFails ==
    /\ UNCHANGED <<cvVars, wt, rz, tp, cc>>
    /\ gv.pc = "add_bgm"
    /\ gv.bgm # ""
    /\ gv' = [gv EXCEPT !.pc = "write"]

\* lines 569-579: the final encode, written to output_file itself
WriteOutput ==
    /\ UNCHANGED <<cvVars, wt, rz, tp, cc>>
    /\ gv.pc = "write"
    /\ gv' = [gv EXCEPT !.pc = "done", !.output = "complete", !.result = "returned"]

WriteOutputFails ==
    /\ UNCHANGED <<cvVars, wt, rz, tp, cc>>
    /\ gv.pc = "write"
    /\ \E left \in {"none", "partial"} :
          gv' = [gv EXCEPT !.pc = "done", !.output = left, !.result = "raised",
                           !.raised_at = "write"]

NextGenerate ==
    \/ LoadClips
    \/ LoadClipsFails
    \/ Subtitles
    \/ SubtitlesFail
    \/ GetBgm
    \/ AddBgm
    \/ AddBgmFails
    \/ WriteOutput
    \/ WriteOutputFails

-----------------------------------------------------------------------------
(* combine_videos: the size and the position of a source on the canvas       *)
(* (lines 152-160 and 176-177)                                               *)

\* clip_w, clip_h, video_width and video_height are in 1..MaxSide
MaxSide == 5

\* clip_w / clip_h > video_width / video_height
NarrowerThanCanvas(clip_w, clip_h, video_width, video_height) ==
    clip_w * video_height < video_width * clip_h

WiderThanCanvas(clip_w, clip_h, video_width, video_height) ==
    clip_w * video_height > video_width * clip_h

\* int(a * (b / c)) in double precision.  The quotient b / c is rounded, so
\* when a * b / c is a whole number q and c does not divide b the product is q
\* or just below it (int(11 * (15 / 11)) is 14); otherwise it truncates to
\* the floor of a * b / c.
ScaledSide(a, b, c) ==
    LET q == (a * b) \div c
    IN  IF (a * b) % c = 0 /\ b % c # 0 THEN {q - 1, q} ELSE {q}

InitResize ==
    \E clip_w \in 1..MaxSide, clip_h \in 1..MaxSide,
       video_width \in 1..MaxSide, video_height \in 1..MaxSide :
        rz = [pc |-> "size", clip_w |-> clip_w, clip_h |-> clip_h,
              video_width |-> video_width, video_height |-> video_height,
              new_width |-> 0, new_height |-> 0, x_offset |-> 0, y_offset |-> 0]

\* lines 155-160
ScaleToFit ==
    /\ UNCHANGED <<cvVars, wt, gv, tp, cc>>
    /\ rz.pc = "size"
    /\ IF WiderThanCanvas(rz.clip_w, rz.clip_h, rz.video_width, rz.video_height)
         THEN \E nh \in ScaledSide(rz.clip_h, rz.video_width, rz.clip_w) :
                 rz' = [rz EXCEPT !.pc = "center", !.new_width = rz.video_width,
                                  !.new_height = nh]
         ELSE \E nw \in ScaledSide(rz.clip_w, rz.video_height, rz.clip_h) :
                 rz' = [rz EXCEPT !.pc = "center", !.new_height = rz.video_height,
                                  !.new_width = nw]

\* lines 176-177
CenterOnCanvas ==
    /\ UNCHANGED <<cvVars, wt, gv, tp, cc>>
    /\ rz.pc = "center"
    /\ rz' = [rz EXCEPT !.pc = "done",
                        !.x_offset = (rz.video_width - rz.new_width) \div 2,
                        !.y_offset = (rz.video_height - rz.new_height) \div 2]

NextResize ==
    \/ ScaleToFit
    \/ CenterOnCanvas

-----------------------------------------------------------------------------
(* generate_video: the vertical position of a subtitle (lines 515-530).      *)
(* Coordinates are kept in hundredths of a pixel, so that                    *)
(* (video_height - h) * (custom_position / 100) is a whole number.           *)

\* video_height is in (2 * margin + 1)..MaxCanvas
MaxCanvas == 26

\* the height of the rendered subtitle is in 1..MaxOverlay
MaxOverlay == 26

\* custom_position is a multiple of 10 in 0..10*MaxTenths
MaxTenths == 11

\* margin = 10  # Additional margin, in pixels
margin == 10

\* params.custom_position / 100
Percent == 100

Max(a, b) == IF a > b THEN a ELSE b

\* max(min_y, min(custom_y, max_y))
ClampUpperLast(v, lo, hi) == Min(hi, Max(v, lo))

Clamp(v, lo, hi) == Max(lo, Min(v, hi))

\* the y passed to with_position, in hundredths of a pixel
PositionY(subtitle_position, custom_position, h, video_height) ==
    IF subtitle_position = "bottom" THEN 95 * video_height - Percent * h
    ELSE IF subtitle_position = "top" THEN 5 * video_height
    ELSE IF subtitle_position = "custom"
           THEN LET max_y == (video_height - h - margin) * Percent
                    min_y == margin * Percent
                    custom_y == (video_height - h) * custom_position
                IN  Clamp(custom_y, min_y, max_y)
    ELSE ((video_height - h) * Percent) \div 2

InitPlace ==
    \E subtitle_position \in {"bottom", "top", "custom", "center"},
       q \in 0..MaxTenths, h \in 1..MaxOverlay,
       video_height \in (2 * margin + 1)..MaxCanvas :
        tp = [pc |-> "place", subtitle_position |-> subtitle_position,
              custom_position |-> 10 * q, h |-> h, video_height |-> video_height,
              y |-> 0]

\* lines 515-530
PlaceSubtitle ==
    /\ UNCHANGED <<cvVars, wt, gv, rz, cc>>
    /\ tp.pc = "place"
    /\ tp' = [tp EXCEPT !.pc = "done",
                        !.y = PositionY(tp.subtitle_position, tp.custom_position,
                                        tp.h, tp.video_height)]

NextPlace == PlaceSubtitle

-----------------------------------------------------------------------------
(* close_clip (lines 54-89).  A handle has a reader, an audio and a mask     *)
(* attribute and a child list; the close() of a reader either returns or     *)
(* raises.  close_clip is called on a handle (or on None) and then once more *)
(* on the same handle.                                                       *)

\* the handles of the graph: the handle close_clip is called on, and another
Handles == {"P", "C"}

\* the depth of nested close_clip calls at which the interpreter raises
\* RecursionError (sys.getrecursionlimit(), 1000 by default)
RecursionLimit == 4

\* an attribute is missing ("absent"), None ("none"), or an object with a
\* reader: "open" before its close() has returned, "closed" after
Attr == {"absent", "none", "open"}

\* the child lists: no clips attribute, or a list without repetitions
ChildLists == {<<>>, <<"P">>, <<"C">>, <<"P", "C">>, <<"C", "P">>}

\* the places of close_clip where an exception can arise
RaiseSites == {"reader", "audio", "mask", "children"}

\* the try of lines 58-84 encloses every one of them
InTryAfterReader(at) == at \in {"audio", "mask", "children"}

InTry(at) == at \in RaiseSites

Front(st) == SubSeq(st, 1, Len(st) - 1)

\* an exception arises at site at of the innermost call: the innermost frame
\* whose try encloses the site goes to its except branch (a frame above the
\* innermost one is at its call close_clip(child_clip), line 79); with no such
\* frame the exception reaches the caller of close_clip
RECURSIVE Unwind(_, _)
Unwind(st, at) ==
    IF st = <<>> THEN [stack |-> <<>>, raised |-> TRUE]
    ELSE IF InTry(at)
           THEN [stack |-> [st EXCEPT ![Len(st)].pc = "except"], raised |-> FALSE]
           ELSE Unwind(Front(st), "children")

\* hasattr(x, 'reader') and x.reader is not None: close() is called
HasReader(a) == a \in {"open", "closed"}

\* lines 60-73 on a handle whose attributes are h, when the close() of the
\* attribute fail raises ("no": none raises): the attributes afterwards
\* (a closed reader stays referenced, a closed audio or mask is deleted) and
\* the attributes whose close() was called
OwnAfter(h, fail) ==
    LET r == IF HasReader(h.reader) /\ fail # "reader" THEN "closed" ELSE h.reader
        a == IF fail = "reader" THEN h.audio
             ELSE IF h.audio \in {"absent", "none"} \/ fail = "audio" THEN h.audio
             ELSE "absent"
        m == IF fail \in {"reader", "audio"} THEN h.mask
             ELSE IF h.mask \in {"absent", "none"} \/ fail = "mask" THEN h.mask
             ELSE "absent"
    IN  [h EXCEPT !.reader = r, !.audio = a, !.mask = m]

\* the close() of attribute x is reached when the close() of fail raises
Reached(x, fail) ==
    \/ x = "reader"
    \/ x = "audio" /\ fail # "reader"
    \/ x = "mask" /\ fail \notin {"reader", "audio"}

\* the attributes whose close() is called, the one that raises included
Invoked(h, fail) ==
    {x \in {"reader", "audio", "mask"} : HasReader(h[x]) /\ Reached(x, fail)}

\* the close() calls that can raise on this handle
CanFail(h) ==
    {"no"} \cup {x \in {"reader", "audio", "mask"} : HasReader(h[x])}

NoAttrs == [reader |-> "none", audio |-> "none", mask |-> "none",
            has_clips |-> FALSE, clips |-> <<>>]

InitClose ==
    \E target \in {"None", "P"},
       hs \in [Handles -> [reader : Attr, audio : Attr, mask : Attr,
                           has_clips : BOOLEAN, clips : ChildLists]] :
        /\ \A x \in Handles : ~hs[x].has_clips => hs[x].clips = <<>>
        /\ target = "None" => hs = [x \in Handles |-> NoAttrs]
        /\ cc = [pc |-> "call", target |-> target, handles |-> hs, stack |-> <<>>,
                 calls |-> 0, raised |-> FALSE, overflow |-> FALSE,
                 suppressed |-> FALSE, closed1 |-> {}, invoked2 |-> {},
                 cleared1 |-> {}]

\* where the caller is after a call of close_clip has ended
AfterCall(calls) == IF calls >= 2 THEN "done" ELSE "call"

\* close_clip(None): if clip is None: return
CallOnNone ==
    /\ UNCHANGED <<cvVars, wt, gv, rz, tp>>
    /\ cc.pc = "call"
    /\ cc.target = "None"
    /\ cc' = [cc EXCEPT !.calls = cc.calls + 1, !.pc = AfterCall(cc.calls + 1)]

\* close_clip(clip) on a handle
CallOnHandle ==
    /\ UNCHANGED <<cvVars, wt, gv, rz, tp>>
    /\ cc.pc = "call"
    /\ cc.target # "None"
    /\ cc' = [cc EXCEPT !.calls = cc.calls + 1, !.pc = "run",
                        !.stack = <<[h |-> cc.target, pc |-> "own",
                                     list |-> <<>>, k |-> 1]>>]

\* lines 60-73 of the innermost call: the reader, the audio and the mask
CloseOwn ==
    /\ UNCHANGED <<cvVars, wt, gv, rz, tp>>
    /\ cc.pc = "run"
    /\ cc.stack # <<>>
    /\ LET n == Len(cc.stack)
           f == cc.stack[n]
           h == cc.handles[f.h]
       IN  /\ f.pc = "own"
           /\ \E fail \in CanFail(h) :
                 LET done == {<<f.h, x>> : x \in Invoked(h, fail)}
                     u == IF fail = "no"
                            THEN [stack |-> [cc.stack EXCEPT
                                     ![n] = [f EXCEPT !.pc = "children",
                                                      !.list = h.clips]],
                                  raised |-> FALSE]
                            ELSE Unwind(cc.stack, fail)
                 IN  cc' = [cc EXCEPT
                        !.handles = [cc.handles EXCEPT ![f.h] = OwnAfter(h, fail)],
                        !.stack = u.stack,
                        !.raised = u.raised,
                        !.suppressed = cc.suppressed \/ (fail # "no" /\ ~u.raised),
                        !.closed1 = IF cc.calls = 1
                                      THEN cc.closed1 \cup (done \ {<<f.h, fail>>})
                                      ELSE cc.closed1,
                        !.invoked2 = IF cc.calls = 2
                                       THEN cc.invoked2 \cup done
                                       ELSE cc.invoked2,
                        !.pc = IF u.stack = <<>> THEN AfterCall(cc.calls) ELSE "run"]

\* lines 76-79: the next child of the list; a child that is the handle itself
\* is passed over, any other child is released by a nested call, which raises
\* RecursionError at the recursion limit
VisitChild ==
    /\ UNCHANGED <<cvVars, wt, gv, rz, tp>>
    /\ cc.pc = "run"
    /\ cc.stack # <<>>
    /\ LET n == Len(cc.stack)
           f == cc.stack[n]
       IN  /\ f.pc = "children"
           /\ f.k <= Len(f.list)
           /\ LET child_clip == f.list[f.k]
                  next == [cc.stack EXCEPT ![n] = [f EXCEPT !.k = f.k + 1]]
              IN  IF child_clip = f.h
                    THEN cc' = [cc EXCEPT !.stack = next]
                  ELSE IF n >= RecursionLimit
                    THEN LET u == Unwind(cc.stack, "children")
                         IN  cc' = [cc EXCEPT
                                !.stack = u.stack,
                                !.raised = u.raised,
                                !.overflow = TRUE,
                                !.suppressed = cc.suppressed \/ ~u.raised,
                                !.pc = IF u.stack = <<>> THEN AfterCall(cc.calls)
                                                         ELSE "run"]
                  ELSE cc' = [cc EXCEPT
                                !.stack = Append(next, [h |-> child_clip, pc |-> "own",
                                                        list |-> <<>>, k |-> 1])]

\* lines 81-83 and 88-89: the loop is over, clip.clips = [], return
ClearAndReturn ==
    /\ UNCHANGED <<cvVars, wt, gv, rz, tp>>
    /\ cc.pc = "run"
    /\ cc.stack # <<>>
    /\ LET n == Len(cc.stack)
           f == cc.stack[n]
       IN  /\ f.pc = "children"
           /\ f.k > Len(f.list)
           /\ cc' = [cc EXCEPT
                 !.handles = [cc.handles EXCEPT ![f.h].clips = <<>>],
                 !.cleared1 = IF cc.calls = 1 /\ cc.handles[f.h].has_clips
                                THEN cc.cleared1 \cup {f.h} ELSE cc.cleared1,
                 !.stack = Front(cc.stack),
                 !.pc = IF n = 1 THEN AfterCall(cc.calls) ELSE "run"]

\* lines 85-89: the except branch logs, then del clip, gc.collect(), return
ReturnFromExcept ==
    /\ UNCHANGED <<cvVars, wt, gv, rz, tp>>
    /\ cc.pc = "run"
    /\ cc.stack # <<>>
    /\ LET n == Len(cc.stack)
       IN  /\ cc.stack[n].pc = "except"
           /\ cc' = [cc EXCEPT !.stack = Front(cc.stack),
                               !.pc = IF n = 1 THEN AfterCall(cc.calls) ELSE "run"]

NextClose ==
    \/ CallOnNone
    \/ CallOnHandle
    \/ CloseOwn
    \/ VisitChild
    \/ ClearAndReturn
    \/ ReturnFromExcept

-----------------------------------------------------------------------------
(* Properties of combine_videos *)

Returned == pc = "done" /\ result = "returned"

\* C1: whenever combine_videos returns with at least one surviving sub-clip,
\* the file at the output path has exactly the duration of the narration
\* (any number of sub-clips, one included).
C1_OutputDurationIsNarration ==
    (Returned /\ Len(processed_clip_paths) >= 1)
        => (files["out"].exists /\ files["out"].dur = audio_duration)

\* the sub-clips of the batches that succeeded, in list order (0-based first)
RECURSIVE SucceededClips(_, _)
SucceededClips(paths, bs) ==
    IF bs = <<>> THEN <<>>
    ELSE (IF Head(bs).ok
            THEN SubSeq(paths, Head(bs).first + 1, Min(Head(bs).first + 2, Len(paths)))
            ELSE <<>>)
         \o SucceededClips(paths, Tail(bs))

\* the accumulated artifact: temp_merged during the loop, the output path after it
Accumulated == IF pc = "batch" THEN files["temp_merged"] ELSE files["out"]

\* C2: during and after the batch merge loop over n >= 2 sub-clips the
\* accumulated artifact is the first sub-clip followed, in list order and each
\* once, by the sub-clips of exactly the batches that succeeded; a failed batch
\* leaves it unchanged, the batches are attempted in order 1, 3, 5, ... and
\* when the loop has ended every batch has been attempted.
C2_AccumulatedIsSeedPlusSucceeded ==
    (pc \in {"batch", "sync", "done"} /\ Len(processed_clip_paths) >= 2)
        => /\ Accumulated.exists
           /\ Accumulated.clips =
                 <<processed_clip_paths[1]>> \o SucceededClips(processed_clip_paths, batches)
           /\ \A k \in 1..Len(batches) : batches[k].first = 2 * k - 1
           /\ pc = "batch" => merge_i = 2 * Len(batches) + 1
           /\ pc # "batch" => Len(batches) = Len(processed_clip_paths) \div 2

\* C2 witness: four sub-clips, the first batch failed, the second was still
\* attempted and succeeded, and the loop has ended.
C2_Witness ==
    /\ pc = "sync"
    /\ Len(processed_clip_paths) = 4
    /\ Len(batches) = 2
    /\ ~batches[1].ok
    /\ batches[2].ok
    /\ files["out"].clips = <<processed_clip_paths[1], processed_clip_paths[4]>>

Keys(s) == {Key(s[k]) : k \in 1..Len(s)}

\* C3: random mode, at least two distinct keys: two adjacent placed elements
\* have the same key only where every element that remained when the second was
\* picked had the key of the element placed just before it.
C3_NoAdjacentRepeat ==
    (video_concat_mode = "random" /\ Cardinality(Keys(processed_clip_paths)) >= 2)
        => \A k \in 2..Len(shuffled_paths) :
              Key(shuffled_paths[k]) = Key(shuffled_paths[k-1])
                  => \A q \in 1..Len(picks[k]) :
                        Key(picks[k][q]) = Key(shuffled_paths[k-1])

\* C3 witness: three sub-clips of two sources have been ordered, not in the
\* order in which they were written.
C3_Witness ==
    /\ pc = "merge"
    /\ video_concat_mode = "random"
    /\ Len(shuffled_paths) = 3
    /\ processed_clip_paths = shuffled_paths
    /\ Cardinality({shuffled_paths[k].i : k \in 1..3}) = 2
    /\ shuffled_paths[1].i = shuffled_paths[3].i
    /\ shuffled_paths[1].start > shuffled_paths[3].start

\* C4: when no sub-clip survives normalization, combine_videos does not
\* return normally: it ends by raising.
C4_NoMaterialIsFatal ==
    (pc = "done" /\ processed_clip_paths = <<>>) => result = "raised"

\* C5: when the write of temp_final fails, combine_videos ends by raising and
\* no partially written file is at the output path.
C5_FinalEncodeFailureIsFatal ==
    (pc = "done" /\ final_encode = "failed")
        => (result = "raised" /\ ~files["out"].partial)

\* the sub-clips of source src, in list order
ClipsOf(paths, src) == SelectSeq(paths, LAMBDA c : c.i = src)

\* ceil(D/m) consecutive sub-clips from offset 0, each m long but the last,
\* which is D mod m long (m when m divides D); D in all
ExactSplit(cs, D, m) ==
    /\ Len(cs) = (D + m - 1) \div m
    /\ \A k \in 1..Len(cs) : cs[k].start = (k - 1) * m
    /\ \A k \in 1..(Len(cs) - 1) : cs[k].dur = m
    /\ Len(cs) >= 1 => cs[Len(cs)].dur = (IF D % m = 0 THEN m ELSE D % m)
    /\ SumDur(cs) = D

\* the step that ends the processing of source i, loaded with clip.duration
EndsSource == pc = "split" /\ pc' = "normalize"

RECURSIVE OkSources(_, _)
OkSources(st, k) ==
    IF k > Len(st) THEN <<>>
    ELSE (IF st[k] = "ok" THEN <<k - 1>> ELSE <<>>) \o OkSources(st, k + 1)

\* C10: sequential mode: the list handed to the merge step holds one sub-clip
\* per successfully processed source, in the order of the source list, and
\* that sub-clip is the source's first segment, of duration min(D, m).
C10_SequentialOnePerSource ==
    /\ [](( video_concat_mode = "sequential"
            /\ pc \in {"merge", "batch", "sync", "done"} /\ result # "raised")
          => /\ Len(processed_clip_paths) = Len(OkSources(sources, 1))
             /\ \A k \in 1..Len(processed_clip_paths) :
                   /\ processed_clip_paths[k].i = OkSources(sources, 1)[k]
                   /\ processed_clip_paths[k].start = 0)
    /\ [][(EndsSource /\ video_concat_mode = "sequential" /\ sources'[i + 1] = "ok")
            => processed_clip_paths' =
                  Append(processed_clip_paths,
                         [i |-> i, start |-> 0,
                          dur |-> Min(clip.duration, max_clip_duration)])]_vars

\* C10 witness: three sources, m = 5, three sub-clips of 5 seconds, one per
\* source in source order, 15 seconds in all.
C10_Witness ==
    /\ pc = "merge"
    /\ video_concat_mode = "sequential"
    /\ max_clip_duration = 5
    /\ video_paths = 3
    /\ processed_clip_paths = << [i |-> 0, start |-> 0, dur |-> 5],
                                 [i |-> 1, start |-> 0, dur |-> 5],
                                 [i |-> 2, start |-> 0, dur |-> 5] >>
    /\ video_duration = 15

\* no step of the run failed: every source was loaded and written, every
\* batch merged, and the final encode succeeded where one was attempted
NoStepFailed ==
    /\ Len(sources) = video_paths
    /\ \A k \in 1..Len(sources) : sources[k] = "ok"
    /\ \A k \in 1..Len(batches) : batches[k].ok
    /\ Len(processed_clip_paths) > 1 => final_encode = "ok"

\* C11: when combine_videos returns from a run in which no step failed, the
\* temp_clips directory and every sub-clip file in it, temp_merged,
\* temp_merged_next and temp_final are gone and only the file at the output
\* path is left, on the single-sub-clip path and on the batch path.
C11_NoTemporaryArtifactRemains ==
    (Returned /\ NoStepFailed)
        => /\ ~temp_dir
           /\ temp_clips = {}
           /\ \A f \in FileNames \ {"out"} : ~files[f].exists
           /\ files["out"].exists
           /\ ~files["out"].partial

\* C11 witness: four sub-clips were merged in two batches, the narration was
\* added, and the function has returned.
C11_Witness ==
    /\ Returned
    /\ NoStepFailed
    /\ Len(processed_clip_paths) = 4
    /\ Len(batches) = 2
    /\ final_encode = "ok"
    /\ files["out"].audio

\* source k (1-based in the history) failed while it was loaded or written
FailedSource(k) == sources[k] \in {"load_failed", "write_failed"}

\* C14: a material whose processing fails at any point (its load, or the write
\* of any of its sub-clips, the first or a later one) is skipped as a whole:
\* none of its sub-clips is in the list handed to the scheduler, none of its
\* duration is in video_duration, and every other material is still processed.
C14_FailedMaterialSkippedWhole ==
    /\ \A k \in 1..Len(sources) :
          FailedSource(k) => ClipsOf(processed_clip_paths, k - 1) = <<>>
    /\ video_duration =
          SumDur(SelectSeq(processed_clip_paths, LAMBDA c : ~FailedSource(c.i + 1)))
    /\ pc \in {"pick", "merge", "batch", "sync"} => Len(sources) = video_paths

\* the number of occurrences of x in the list s
Count(s, x) == Cardinality({k \in 1..Len(s) : s[k] = x})

\* the lists a and b hold the same elements, each the same number of times
SameMultiset(a, b) ==
    /\ Len(a) = Len(b)
    /\ \A k \in 1..Len(a) : Count(a, a[k]) = Count(b, a[k])

\* C18: random mode: after every iteration of the selection loop, and after
\* the swap of the last placed element with the single remaining one, the
\* placed elements followed by the remaining ones are the input list up to
\* order; the final order has the length of the input and loses or duplicates
\* no sub-clip.
C18_ScheduleIsPermutation ==
    picks # <<>>
        => /\ pc = "pick"
                => /\ SameMultiset(shuffled_paths \o available_paths, picks[1])
                   /\ processed_clip_paths = picks[1]
                   /\ available_paths # <<>>
                        => SameMultiset(
                              SwapShuffled(shuffled_paths, available_paths)
                                 \o SwapAvailable(shuffled_paths, available_paths),
                              picks[1])
           /\ pc # "pick"
                => /\ processed_clip_paths = shuffled_paths
                   /\ Len(processed_clip_paths) = Len(picks[1])
                   /\ SameMultiset(processed_clip_paths, picks[1])

\* C18 witness: three sub-clips have been placed in an order that is not the
\* order in which they were written.
C18_Witness ==
    /\ pc = "merge"
    /\ Len(picks) = 3
    /\ Len(picks[1]) = 3
    /\ processed_clip_paths # picks[1]
    /\ processed_clip_paths[3] = picks[1][1]

\* C16: every handle opened during an iteration of the batch merge loop
\* (base_clip, the batch clips, merged_clip) has been passed to close_clip
\* when the iteration ends, that is before the next iteration opens a handle
\* and before the loop ends, whether the merge step succeeded or raised.
C16_BatchHandlesReleased ==
    pc = "batch" => merge_handles.opened \subseteq merge_handles.released

-----------------------------------------------------------------------------
(* wrap_text on every text and pair of budgets *)

WrapInit == IdleCombine /\ InitWrap /\ IdleGenerate /\ IdleResize /\ IdlePlace /\ IdleClose

WrapNext == NextWrap

WrapSpec == WrapInit /\ [][WrapNext]_vars

\* a line is within the budget, or is one character that alone exceeds it
LineFits(line, max_width) ==
    \/ TextWidth(line) <= max_width
    \/ Len(Strip(line)) = 1

\* C7: every line wrap_text returns (word-level or character-level pass) is
\* no wider than the budget, unless it is a single character wider than it.
C7_LinesWithinBudget ==
    /\ wt.pc \in {"second", "done"}
         => \A k \in 1..Len(wt.r1.lines) : LineFits(wt.r1.lines[k], wt.w1)
    /\ wt.pc = "done"
         => \A k \in 1..Len(wt.r2.lines) : LineFits(wt.r2.lines[k], wt.w2)

\* C8: for budgets w1 < w2 the line count with w1 is at least that with w2.
C8_LineCountMonotone ==
    wt.pc = "done" => wt.r1.count >= wt.r2.count

-----------------------------------------------------------------------------
(* generate_video on every background-music request *)

GenInit == IdleCombine /\ IdleWrap /\ InitGenerate /\ IdleResize /\ IdlePlace /\ IdleClose

GenNext == NextGenerate

GenSpec == GenInit /\ [][GenNext]_vars

\* C6: obtaining, loading or processing the background music never makes
\* generate_video fail: it never raises at get_bgm_file or at the mixing, and
\* when the music is unusable the encode runs with the narration alone.
C6_BgmFailureNeverFatal ==
    /\ gv.raised_at # "get_bgm_file"
    /\ (gv.pc = "write" /\ gv.bgm = "") => gv.audio = "narration"

-----------------------------------------------------------------------------
(* the letterbox computation on every source size and canvas *)

ResizeInit == IdleCombine /\ IdleWrap /\ IdleGenerate /\ InitResize /\ IdlePlace /\ IdleClose

ResizeNext == NextResize

ResizeSpec == ResizeInit /\ [][ResizeNext]_vars

\* C13: for every source size (clip_w, clip_h) and every canvas the scaled
\* size has new_width = video_width or new_height = video_height, the other
\* side is at most the canvas side, and both centering offsets are >= 0.
C13_Letterbox ==
    /\ rz.pc \in {"center", "done"}
         => /\ rz.new_width = rz.video_width \/ rz.new_height = rz.video_height
            /\ rz.new_width <= rz.video_width
            /\ rz.new_height <= rz.video_height
    /\ rz.pc = "done"
         => /\ rz.x_offset >= 0
            /\ rz.y_offset >= 0
            /\ rz.x_offset = (rz.video_width - rz.new_width) \div 2
            /\ rz.y_offset = (rz.video_height - rz.new_height) \div 2

\* C13 witness: a source wider than the canvas (5x2 on 3x4) is scaled to the
\* canvas width, is lower than the canvas and is centred vertically.
C13_Witness ==
    /\ rz.pc = "done"
    /\ <<rz.clip_w, rz.clip_h, rz.video_width, rz.video_height>> = <<5, 2, 3, 4>>
    /\ <<rz.new_width, rz.new_height>> = <<3, 1>>
    /\ <<rz.x_offset, rz.y_offset>> = <<0, 1>>

-----------------------------------------------------------------------------
(* the subtitle placement on every position, overlay height and canvas *)

PlaceInit == IdleCombine /\ IdleWrap /\ IdleGenerate /\ IdleResize /\ InitPlace /\ IdleClose

PlaceNext == NextPlace

PlaceSpec == PlaceInit /\ [][PlaceNext]_vars

Placed == tp.pc = "done" /\ tp.subtitle_position = "custom"

-----------------------------------------------------------------------------
(* close_clip on every handle graph, called twice *)

CloseInit == IdleCombine /\ IdleWrap /\ IdleGenerate /\ IdleResize /\ IdlePlace /\ InitClose

CloseNext == NextClose

CloseSpec == CloseInit /\ [][CloseNext]_vars

\* C12 as stated: close_clip never raises to its caller (a null handle, a
\* released handle, a handle missing its reader, audio or mask, a close() that
\* fails), and a repeated call on the same handle closes nothing that the
\* first call closed.
C12_NeverRaisesRepeatClosesNothing ==
    /\ ~cc.raised
    /\ cc.closed1 \cap cc.invoked2 = {}

\* C12 amended: close_clip never raises to its caller; a repeated call calls
\* close() again on readers the handles still reference, but on no audio or
\* mask that the first call closed, and it visits no child when the first
\* call has emptied the child list of the handle.
C12_NeverRaisesRepeatClosesReadersOnly ==
    /\ ~cc.raised
    /\ \A c \in cc.closed1 \cap cc.invoked2 : c[2] = "reader"
    /\ cc.target \in cc.cleared1 => \A c \in cc.invoked2 : c[1] = cc.target

\* C12 witness: the first call closed the reader and the audio of the handle
\* and suppressed the failure of the mask's close(); the second call has
\* returned too, having closed the reader again and the mask.
C12_Witness ==
    /\ cc.pc = "done"
    /\ cc.calls = 2
    /\ cc.suppressed
    /\ ~cc.raised
    /\ cc.closed1 = {<<"P", "reader">>, <<"P", "audio">>}
    /\ cc.invoked2 = {<<"P", "reader">>, <<"P", "mask">>}

\* C15: close_clip terminates on every handle graph, cycles through child
\* lists included (a composite among its own children, a child whose child
\* list contains its parent): the recursion ends without exhausting the call
\* stack; and when a call on a composite has returned, its child list is empty.
C15_TerminatesAndClearsChildren ==
    /\ ~cc.overflow
    /\ (cc.pc \in {"call", "done"} /\ cc.calls >= 1 /\ cc.target # "None")
          => cc.handles[cc.target].clips = <<>>

====
